---- MODULE Spec2Model ----
(***************************************************************************)
(* The Save Coordinator of the ad saver extension (src/background.js): the *)
(* message listener with its three operations checkAuth, checkAdSaved and  *)
(* saveAdVia<Service>Tab, the saved-ads list kept in chrome.storage.local, *)
(* and the helpers the handlers call.  A handler is an async function: it  *)
(* runs from one await to the next without interruption, and other         *)
(* handlers run in between.  Each action below is one such stretch.        *)
(*                                                                         *)
(* The browser and the remote service are the environment: what the        *)
(* session probe, a tab query, a script injection, the POST or a storage   *)
(* call yields is drawn afresh at the step that awaits it.                 *)
(***************************************************************************)
EXTENDS Integers, Sequences, FiniteSets, TLC

\* ---------------------------------------------------------------- bounds
MaxProcs == 2   \* message handlers that may be in flight at the same time
MaxTabs  == 2   \* service tabs a tab query may return
MaxClicks == 3  \* clicks on one save control
MaxCards  == 1  \* ad cards on the page
MaxInserts == 3 \* times the site adds nodes to the page
MaxInjections == 2  \* times the content script is run in one document

Procs == 1..MaxProcs

\* ------------------------------------------------------------ identifiers
\* A Facebook Library ID and a TikTok creative link: the two kinds of save key.
LibraryIds    == {"123456789"}
CreativeLinks == {"https://ads.tiktok.com/business/creativecenter/topads/7"}
Ids           == LibraryIds \cup CreativeLinks

\* The builds of the background script: the two of src/background.js, which keep
\* the saved-ads list, and the earlier one that answers checkAuth only.
Variants == {"SwipeFile", "AdvertFarm", "AuthOnly"}

\* ------------------------------------------------------------ JSON values
NoUser       == [id |-> ""]
User         == [id |-> "u1"]
Null         == [type |-> "null", keys |-> {}, user |-> NoUser]
Unparseable  == [type |-> "unparseable", keys |-> {}, user |-> NoUser]
SessionBodies ==
    { Unparseable, Null,
      [type |-> "object", keys |-> {}, user |-> NoUser],
      [type |-> "object", keys |-> {"expires"}, user |-> NoUser],
      [type |-> "object", keys |-> {"user", "expires"}, user |-> NoUser],
      [type |-> "object", keys |-> {"user", "expires"}, user |-> User] }

\* What fetch(ADVERT_FARM_SESSION_URL) yields: it throws, or it resolves to a
\* response with a status (ok or not) and a body.
SessionProbes ==
    { [threw |-> TRUE, ok |-> FALSE, body |-> Unparseable] }
      \cup { [threw |-> FALSE, ok |-> FALSE, body |-> b] : b \in {Unparseable, Null} }
      \cup { [threw |-> FALSE, ok |-> TRUE, body |-> b] : b \in SessionBodies }
NoProbe == [threw |-> TRUE, ok |-> TRUE, body |-> Null]

Truthy(user) == user # NoUser

\* The probe reached the service, which answered with a success status and a
\* session object that names a user.
ProbeShowsUser(probe) ==
    /\ ~probe.threw /\ probe.ok
    /\ probe.body.type = "object" /\ "user" \in probe.body.keys
    /\ probe.body.user # NoUser

\* The session check without its test of sessionData.user.
checkSessionAnyObject(probe) ==
    IF probe.threw \/ ~probe.ok \/ probe.body.type # "object" THEN Null
    ELSE IF Cardinality(probe.body.keys) > 0 THEN probe.body ELSE Null

checkSwipeFileSession(probe) ==
    IF probe.threw THEN Null
    ELSE IF ~probe.ok THEN Null
    ELSE IF probe.body.type = "unparseable" THEN Null
    ELSE LET sessionData == probe.body
             isActive == /\ sessionData.type # "null"
                         /\ Cardinality(sessionData.keys) > 0
                         /\ "user" \in sessionData.keys
                         /\ Truthy(sessionData.user)
         IN  IF isActive THEN sessionData ELSE Null

\* ------------------------------------------------------------------- tabs
NoTab == [id |-> 0, active |-> FALSE]
Tabs  == [id : 0..MaxTabs, active : BOOLEAN]
TabLists ==
    { t \in UNION { [1..n -> Tabs] : n \in 0..MaxTabs } :
        \A i, j \in DOMAIN t : (i # j /\ t[i].id # 0) => t[i].id # t[j].id }
\* chrome.tabs.query: it throws, or resolves to the list of matching tabs.
TabQueries == { [threw |-> TRUE, tabs |-> <<>>] }
                \cup { [threw |-> FALSE, tabs |-> t] : t \in TabLists }

\* tabs.find(t => t.active) || tabs[0]
TargetTab(tabs) ==
    LET act == { i \in DOMAIN tabs : tabs[i].active }
    IN  IF act # {} THEN tabs[CHOOSE i \in act : \A j \in act : i <= j]
        ELSE tabs[1]

\* What the injected localStorage.getItem yields: the injection throws, or
\* resolves to a list of frame results (possibly empty) whose first result is
\* the stored string, "" standing for null and the empty string alike.
Orgs == {"org_42"}
OrgScripts ==
    { [threw |-> TRUE, frames |-> 0, result |-> ""],
      [threw |-> FALSE, frames |-> 0, result |-> ""],
      [threw |-> FALSE, frames |-> 1, result |-> ""] }
      \cup { [threw |-> FALSE, frames |-> 1, result |-> o] : o \in Orgs }

\* --------------------------------------------------------------- the POST
MsgBodies ==
    { [type |-> "unparseable", message |-> ""],
      [type |-> "null", message |-> ""],
      [type |-> "object", message |-> ""],
      [type |-> "object", message |-> "server message"] }
Https ==
    { [fetchThrew |-> TRUE, status |-> 0, body |-> [type |-> "null", message |-> ""]] }
      \cup [fetchThrew : {FALSE}, status : {200, 500}, body : MsgBodies]
NoHttp == [fetchThrew |-> FALSE, status |-> 0, body |-> [type |-> "null", message |-> ""]]
\* chrome.scripting.executeScript of saveAdInPageContext: the injection throws,
\* resolves to no frame result, or runs the function against the service.
PostScripts ==
    { [threw |-> TRUE, frames |-> 0, http |-> NoHttp],
      [threw |-> FALSE, frames |-> 0, http |-> NoHttp] }
      \cup { [threw |-> FALSE, frames |-> 1, http |-> h] : h \in Https }
NoPost == [threw |-> FALSE, frames |-> 0, http |-> [NoHttp EXCEPT !.status = 1]]

ResponseOk(http) == http.status \in 200..299
StatusText(status) == IF status = 200 THEN "OK" ELSE "Internal Server Error"
\* `API Error: ${response.status} ${response.statusText}`
ApiError(status) == "API Error: " \o ToString(status) \o " " \o StatusText(status)

NoResult == [success |-> FALSE, message |-> ""]

saveAdInPageContext(payload, http) ==
    IF http.fetchThrew
    THEN [success |-> FALSE, message |-> "Failed to fetch"]
    ELSE IF http.body.type = "unparseable"
    THEN [success |-> FALSE, message |-> "Unexpected token < in JSON at position 0"]
    ELSE IF http.body.type = "null"
    THEN [success |-> FALSE, message |-> "Cannot read properties of null (reading 'message')"]
    ELSE LET responseData == http.body
         IN  IF ~ResponseOk(http)
             THEN [success |-> FALSE,
                   message |-> IF responseData.message # "" THEN responseData.message
                               ELSE ApiError(http.status)]
             ELSE [success |-> TRUE, data |-> responseData,
                   message |-> IF responseData.message # "" THEN responseData.message
                               ELSE "Ad saved successfully from page context."]

\* ------------------------------------------------------------------ state
VARIABLES
    variant,            \* which build of the background script is installed
    savedAdLibraryIds,  \* chrome.storage.local[SAVED_ADS_STORAGE_KEY]
    proc,               \* per handler: its position and its local variables
    obs,                \* per handler: what the environment yielded to it (history)
    succeeded,          \* identifiers a save POST has succeeded for (history)
    \* the content script (src/unnamed/part_000, part_001) on one page
    site,               \* the page's host: "facebook" or "tiktok"
    saveButton,         \* the element the click listener is attached to
    clone,              \* the copy that replaceWith(cloneNode(true)) puts in its place
    inDocument,         \* which of the two is in the document
    outstanding,        \* save requests sent whose callback has not run
    resetTimers,        \* pending setTimeout(..., 2000) callbacks of the control
    ui,                 \* what the control has sent, received and shown (history)
    cards,              \* the ad cards of the page
    timers,             \* pending timers of the scanner: debounce and initial scans
    timeout,            \* debounce's `timeout`: the handle of the timer it set last
    elapsed,            \* time since the observer last called the debounced scan
    scans,              \* scans run and calls made (history)
    marker              \* the initialized-marker element is in the document

coordVars   == <<variant, savedAdLibraryIds, proc, obs, succeeded>>
controlVars == <<saveButton, clone, inDocument, outstanding, resetTimers, ui>>
scanVars    == <<cards, timers, timeout, elapsed, scans, marker>>
pageVars    == <<site, controlVars, scanVars>>
vars        == <<coordVars, pageVars>>

NoPayload  == [none |-> TRUE]
NoResponse == [none |-> TRUE]

Idle ==
    [pc |-> "idle", action |-> "", libraryId |-> "", isTiktok |-> FALSE,
     sessionData |-> Null, userId |-> "", organizationId |-> "", targetTabId |-> 0,
     payload |-> NoPayload, result |-> NoResult, savedAds |-> <<>>,
     response |-> NoResponse]

\* What one request has seen of its environment, and where it stands relative
\* to the other requests.
NoObs ==
    [probe |-> NoProbe,     \* checkAuth: the session probe's outcome
     session |-> "",        \* save: whether the probe showed a user: "none", "user"
     orgTabs |-> "",        \* the organization lookup's tab query: "threw",
                            \* "none", "noid" or "found"; "" when not made
     orgScript |-> "",      \* the lookup's injection: "threw", "empty", "value"
     destTabs |-> "",       \* the destination tab query, as orgTabs
     post |-> NoPost,       \* the outcome of the save injection
     read |-> "",           \* the ledger read: "threw", or else "present" or
                            \* "absent" (the identifier in the list read)
     write |-> "",          \* the ledger write: "threw" or "ok"
     raced |-> FALSE,       \* another save of the same identifier wrote between
                            \* this request's ledger read and its ledger write
     afterSuccess |-> FALSE,\* checkAdSaved: issued after a save of its identifier
                            \* was answered success=true
     callback |-> FALSE]    \* the callback of the page's save control waits for
                            \* the answer to this request

\* ----------------------------------------------------------------- helpers
\* `response.flag` of a response that may lack the field
HasFlag(r, f) == f \in DOMAIN r /\ r[f]
Includes(list, x) == \E i \in DOMAIN list : list[i] = x
\* The save action the installed build handles ("": it handles none).
SaveAction == IF variant = "SwipeFile" THEN "saveAdViaSwipeFileTab"
              ELSE IF variant = "AdvertFarm" THEN "saveAdViaAdvertFarmTab"
              ELSE ""

NotAuthenticated ==
    [success |-> FALSE, message |-> "User not authenticated.", redirectToLogin |-> TRUE]
OrgNotFound ==
    [success |-> FALSE, message |-> "Organization ID not found.",
     redirectToInspiration |-> TRUE]
TabNotOpen ==
    [success |-> FALSE,
     message |-> IF variant = "SwipeFile"
                 THEN "Swipe File tab not open. Please open Swipe File to save ads."
                 ELSE "Advert Farm tab not open. Please open Advert Farm to save ads."]
NoSuitableTab ==
    [success |-> FALSE,
     message |-> IF variant = "SwipeFile"
                 THEN "Could not find a suitable Swipe File tab."
                 ELSE "Could not find a suitable Advert Farm tab."]
ExecuteFailed ==
    [success |-> FALSE,
     message |-> IF variant = "SwipeFile"
                 THEN "Failed to execute save operation in Swipe File tab."
                 ELSE "Failed to execute save operation in Advert Farm tab."]
ErrorSaving ==
    [success |-> FALSE, message |-> "Error saving ad: Cannot access contents of the page"]

\* sendResponse(r): the handler ends; its locals go out of scope.
Respond(p, r) ==
    [Idle EXCEPT !.pc = "done", !.action = proc[p].action,
                 !.libraryId = proc[p].libraryId, !.isTiktok = proc[p].isTiktok,
                 !.response = r]

\* The payload of the save POST, as the handler assembles it.
Payload(userId, organizationId, libraryId, isTiktok) ==
    IF variant = "SwipeFile"
    THEN IF isTiktok
         THEN [userId |-> userId, organizationId |-> organizationId,
               creativeLink |-> libraryId, library |-> "tiktok"]
         ELSE [userId |-> userId, organizationId |-> organizationId,
               libraryId |-> libraryId, library |-> "meta"]
    ELSE [userId |-> userId, organizationId |-> organizationId,
          libraryId |-> libraryId]

\* The handler's session test, passing whatever the session check returned.
AuthenticatedAlways(sessionData) == TRUE

\* `!sessionData || !sessionData.user` is false
Authenticated(sessionData) == sessionData # Null /\ Truthy(sessionData.user)

\* results && results.length > 0 && results[0].result, else null ("")
OrgIdOf(script) ==
    IF ~script.threw /\ script.frames > 0 /\ script.result # ""
    THEN script.result ELSE ""

\* markAdAsSaved without its duplicate test.
ShouldAppendAlways(savedAds, libraryId) == TRUE

\* markAdAsSaved: `!savedAds.includes(libraryId)`
ShouldAppend(savedAds, libraryId) == ~Includes(savedAds, libraryId)

\* A write that adds the pushed identifier to the list as stored now, not to
\* the copy this call read.
StoredByMerge(stored, savedAds) == Append(stored, savedAds[Len(savedAds)])

\* markAdAsSaved: the value chrome.storage.local.set stores under the key
StoredBySet(stored, savedAds) == savedAds

\* isAdSaved answering true from its catch block.
isAdSavedTrueOnError(readOk, stored, libraryId) ==
    IF ~readOk THEN TRUE ELSE Includes(stored, libraryId)

isAdSaved(readOk, stored, libraryId) ==
    IF ~readOk THEN FALSE ELSE Includes(stored, libraryId)

Settled(p) == proc[p].pc \in {"idle", "done", "unhandled", "hung"}

Requests ==
    { [action |-> "checkAuth", libraryId |-> "", isTiktok |-> FALSE] }
      \cup { [action |-> a, libraryId |-> x, isTiktok |-> x \in CreativeLinks] :
               a \in {"checkAdSaved", "saveAdViaSwipeFileTab", "saveAdViaAdvertFarmTab"},
               x \in Ids }

Set(p, r) == proc' = [proc EXCEPT ![p] = r]
See(p, o) == obs' = [obs EXCEPT ![p] = o]

Answer(p, r) == Set(p, Respond(p, r))

\* A save of identifier x has been answered success=true.
AnsweredSuccess(x) ==
    \E q \in Procs : /\ proc[q].pc = "done" /\ proc[q].action = SaveAction
                     /\ proc[q].libraryId = x /\ proc[q].response.success

\* ---------------------------------------------------- the page: a control
Sites == {"facebook", "tiktok"}

ADVERT_FARM_LOGIN_URL       == "https://www.advertfarm.com/"
ADVERT_FARM_INSPIRATION_URL == "https://www.advertfarm.com/saved"

SaveText  == "Save Ad to Advert Farm"
SavedText == "Saved to Advert Farm"      \* after a check mark, in the source
SaveClass(s) ==
    IF s = "facebook" THEN "ad-saver-extension-save-button"
    ELSE "ad-saver-extension-save-button-tiktok"
SavedClass(s) ==
    IF s = "facebook" THEN "ad-saver-extension-saved-button"
    ELSE "ad-saver-extension-saved-button-tiktok"

\* The control is a div holding a text span.  `disabled` is its attribute of
\* that name, which on a div keeps no click away; `listener` tells whether the
\* click listener is attached to the element.
NoElement == [className |-> "", text |-> "", disabled |-> FALSE, listener |-> FALSE]

\* The save button as add<Site>SaveButtonToAd builds it from checkIfAdSaved's answer.
NewButton(s, isSaved) ==
    IF isSaved
    THEN [className |-> SavedClass(s), text |-> SavedText, disabled |-> FALSE,
          listener |-> FALSE]
    ELSE [className |-> SaveClass(s), text |-> SaveText, disabled |-> FALSE,
          listener |-> TRUE]

\* cloneNode(true): attributes and children are copied, listeners are not.
cloneNode(el) == [el EXCEPT !.listener = FALSE]

\* A success branch that leaves the button, listener and all, where it is.
replaceWithNothing(where, el) == [inDocument |-> where, clone |-> clone]

\* saveButton.replaceWith(saveButton.cloneNode(true)): the copy takes the
\* button's place in the document; a button no longer there is left alone.
replaceWith(where, el) ==
    IF where = "saveButton"
    THEN [inDocument |-> "clone", clone |-> cloneNode(el)]
    ELSE [inDocument |-> where, clone |-> clone]

\* What the callback of sendMessage is called with: chrome.runtime.lastError
\* set and no response, or one of the answers of the save handler.
SavedResult ==
    saveAdInPageContext(NoPayload, [fetchThrew |-> FALSE, status |-> 200,
                                    body |-> [type |-> "object", message |-> ""]])
SaveAnswers == {SavedResult, NotAuthenticated, OrgNotFound, ErrorSaving}
Deliveries  == { [lastError |-> TRUE, response |-> NoResponse] }
                 \cup { [lastError |-> FALSE, response |-> r] : r \in SaveAnswers }
NoDelivery  == [lastError |-> FALSE, response |-> NoResponse]

NoUi ==
    [sent |-> 0,            \* save requests sent
     last |-> NoDelivery,   \* what the callback was last called with
     alert |-> "",          \* the alert that call showed ("": none)
     opened |-> "",         \* the page that call opened ("": none)
     timerSet |-> FALSE,    \* that call set the reset timer
     everSuccess |-> FALSE] \* some call was a success response

\* ---------------------------------------------------- the page: the scanner
DebounceWait      == 500                   \* debounce(findAndProcess...Ads, 500)
InitialScanDelays == {1000, 3000, 5000}    \* setTimeout(findAndProcess...Ads, ...)
\* Time passes in steps of half the debounce wait.
Quantum    == DebounceWait \div 2
LongAfter  == DebounceWait + Quantum

Cards == 1..MaxCards
NoCard ==
    [inPage |-> FALSE,     \* the card is in the document
     id |-> "",            \* the identifier its content yields ("": none)
     anchor |-> FALSE,     \* the element the control is put next to is there
     processed |-> FALSE,  \* the card carries the processed marker class
     control |-> "none",   \* "none", "pending" (checkIfAdSaved awaited), or the
                           \* injected control: "save" or "saved"
     awaiting |-> 0,       \* calls of add...SaveButtonToAd for it that await
                           \* checkIfAdSaved, up to 2
     controls |-> 0,       \* wrappers, each with its control, put into it, up to 2
     rescanned |-> FALSE,  \* a scan has passed over it during the await going on
     examined |-> 0]       \* scans that found it unprocessed, up to 2 (history)
\* The identifiers a card of the site can carry.
SiteIds(s) == IF s = "facebook" THEN LibraryIds ELSE CreativeLinks
\* A card as the site may put it into the page.  A Facebook card is found
\* through its details button, so the control's anchor is there.
NewCards(s) ==
    { [NoCard EXCEPT !.inPage = TRUE, !.id = x, !.anchor = a] :
        x \in SiteIds(s) \cup {""}, a \in IF s = "facebook" THEN {TRUE} ELSE BOOLEAN }

NoScans ==
    [called |-> FALSE,     \* the observer has called the debounced scan
     sinceCall |-> 0,      \* debounced scans run since its last call
     burst |-> 0,          \* calls, up to 2, that came less than the wait after
                           \* the call before them, in the run of calls going on
     inserts |-> 0,        \* times the site has added nodes
     injections |-> 0,     \* times the content script has been run
     setups |-> 0]         \* times initialSetup has run, up to 2

\* The cards are numbered in the order in which they come into the page: the
\* number the next one gets.
NextCard(cs) == 1 + Cardinality({ c \in Cards : cs[c].inPage })

\* clearTimeout that clears nothing.
clearTimeoutNoop(ts, id) == ts

clearTimeout(ts, id) == { t \in ts : t.id # id }

\* The handle setTimeout returns.
NewTimerId(ts) ==
    IF ts = {} THEN 1
    ELSE 1 + (CHOOSE i \in { t.id : t \in ts } : \A t \in ts : t.id <= i)

\* Marking whatever the identifier.
ShouldMarkAlways(card) == TRUE

\* findAndProcess...Ads: `if (libraryId)`, `if (creativeLink)`
ShouldMark(card) == card.id # ""

\* The test for a wrapper that is there already.  On TikTok it looks at the
\* class of the anchor's parent.  On Facebook it searches the descendants of
\* the button's parent, which after an injection is the wrapper itself: the
\* search does not find it.
WrapperFound(card) == site = "tiktok" /\ card.controls > 0

\* add...SaveButtonToAd up to its await: it returns when the anchor is missing
\* or a wrapper is found, and else asks checkIfAdSaved.
addSaveButtonToAd(card) ==
    IF ~card.anchor \/ WrapperFound(card) THEN card
    ELSE [card EXCEPT !.control = IF card.controls > 0 THEN @ ELSE "pending",
                      !.awaiting = IF @ < 2 THEN @ + 1 ELSE @]

\* A scan that calls add...SaveButtonToAd and leaves the card without the
\* processed marker class.
findAndProcessAdsUnmarked(cs) ==
    [c \in Cards |->
       IF ~cs[c].inPage \/ ~ShouldMark(cs[c]) THEN cs[c]
       ELSE addSaveButtonToAd(cs[c])]

\* findAndProcess...Ads: the loop over the cards of the document
findAndProcessAds(cs) ==
    [c \in Cards |->
       IF ~cs[c].inPage THEN cs[c]
       ELSE IF cs[c].processed
       THEN [cs[c] EXCEPT !.rescanned = @ \/ cs[c].awaiting > 0]
       ELSE LET seenOnce == [cs[c] EXCEPT !.examined = IF @ < 2 THEN @ + 1 ELSE @]
            IN  IF ShouldMark(cs[c])
                THEN [addSaveButtonToAd(seenOnce) EXCEPT !.processed = TRUE]
                ELSE seenOnce]

ScannerAtRest ==
    /\ cards = [c \in Cards |-> NoCard]
    /\ timers = {} /\ timeout = 0 /\ elapsed = 0
    /\ scans = NoScans
    /\ marker = FALSE

ControlAtRest ==
    /\ saveButton = NoElement /\ clone = NoElement /\ inDocument = ""
    /\ outstanding = 0 /\ resetTimers = 0
    /\ ui = NoUi

\* No content script is running.
NoPage == site = "" /\ ControlAtRest /\ ScannerAtRest

\* The background script has just been loaded.
CoordinatorLoaded ==
    /\ savedAdLibraryIds = <<>>
    /\ proc = [p \in Procs |-> Idle]
    /\ obs = [p \in Procs |-> NoObs]
    /\ succeeded = {}

Init ==
    /\ variant \in Variants
    /\ CoordinatorLoaded
    /\ NoPage

\* ---------------------------------------------------------------- actions
\* chrome.runtime.onMessage listener: dispatch on request.action.  The
\* request comes from the save control of the page (callback) or from elsewhere.
Receive(p, request, callback) ==
    /\ Settled(p) /\ ~obs[p].callback
    /\ LET start(pc) == [Idle EXCEPT !.pc = pc, !.action = request.action,
                                     !.libraryId = request.libraryId,
                                     !.isTiktok = request.isTiktok]
       IN  IF request.action = "checkAuth" THEN Set(p, start("auth_session"))
           ELSE IF variant = "AuthOnly" THEN Set(p, start("unhandled"))
           ELSE IF request.action = "checkAdSaved" THEN Set(p, start("check_read"))
           ELSE IF request.action = SaveAction
           THEN Set(p, [start("session") EXCEPT
                          !.isTiktok = variant = "SwipeFile" /\ request.isTiktok])
           ELSE Set(p, start("unhandled"))
    /\ See(p, [NoObs EXCEPT !.afterSuccess = /\ request.action = "checkAdSaved"
                                              /\ AnsweredSuccess(request.libraryId),
                            !.callback = callback])
    /\ UNCHANGED <<variant, savedAdLibraryIds, succeeded>>

\* A message from a page the model does not follow.
OnMessage(p, request) ==
    /\ Receive(p, request, FALSE)
    /\ UNCHANGED pageVars

\* checkAuth of the earlier build: `if (sessionData && sessionData.user)`
LooksUpOrg(sessionData) == sessionData # Null /\ Truthy(sessionData.user)

\* checkAuth.  The builds that keep the list:
\*   checkSwipeFileSession().then(sessionData => sendResponse({sessionData}))
\* The earlier build: the session check, then the organization id lookup when
\* the session names a user, else sendResponse({sessionData, organizationId: null})
CheckAuth(p) ==
    /\ proc[p].pc = "auth_session"
    /\ \E probe \in SessionProbes :
         LET sessionData == checkSwipeFileSession(probe)
         IN  /\ See(p, [obs[p] EXCEPT !.probe = probe])
             /\ IF variant # "AuthOnly"
                THEN Answer(p, [sessionData |-> sessionData])
                ELSE IF LooksUpOrg(sessionData)
                THEN Set(p, [proc[p] EXCEPT !.pc = "auth_org_tabs",
                                               !.sessionData = sessionData])
                ELSE Answer(p, [sessionData |-> sessionData, organizationId |-> ""])
    /\ UNCHANGED pageVars
    /\ UNCHANGED <<variant, savedAdLibraryIds, succeeded>>

\* checkAuth, getOrgIdFromAdvertFarmTab: the tab query and the choice of the tab
CheckAuthOrgTabs(p) ==
    /\ proc[p].pc = "auth_org_tabs"
    /\ \E q \in TabQueries :
         LET seen == IF q.threw THEN "threw"
                     ELSE IF Len(q.tabs) = 0 THEN "none"
                     ELSE IF TargetTab(q.tabs).id = 0 THEN "noid" ELSE "found"
         IN  /\ See(p, [obs[p] EXCEPT !.orgTabs = seen])
             /\ IF seen = "found"
                THEN Set(p, [proc[p] EXCEPT !.pc = "auth_org_script",
                                               !.targetTabId = TargetTab(q.tabs).id])
                ELSE Answer(p, [sessionData |-> proc[p].sessionData,
                                organizationId |-> ""])
    /\ UNCHANGED pageVars
    /\ UNCHANGED <<variant, savedAdLibraryIds, succeeded>>

\* checkAuth, getOrgIdFromAdvertFarmTab: the injected read of localStorage;
\* then sendResponse({ sessionData, organizationId })
CheckAuthOrgScript(p) ==
    /\ proc[p].pc = "auth_org_script"
    /\ \E s \in OrgScripts :
         /\ See(p, [obs[p] EXCEPT !.orgScript =
                      IF s.threw THEN "threw"
                      ELSE IF OrgIdOf(s) = "" THEN "empty" ELSE "value"])
         /\ Answer(p, [sessionData |-> proc[p].sessionData,
                       organizationId |-> OrgIdOf(s)])
    /\ UNCHANGED pageVars
    /\ UNCHANGED <<variant, savedAdLibraryIds, succeeded>>

\* checkAdSaved: isAdSaved(libraryId).then(isSaved => sendResponse({isSaved}))
CheckAdSaved(p) ==
    /\ proc[p].pc = "check_read"
    /\ \E readOk \in BOOLEAN :
         /\ Set(p, Respond(p, [isSaved |->
                      isAdSaved(readOk, savedAdLibraryIds, proc[p].libraryId)]))
         /\ See(p, [obs[p] EXCEPT !.read =
                      IF ~readOk THEN "threw"
                      ELSE IF Includes(savedAdLibraryIds, proc[p].libraryId)
                      THEN "present" ELSE "absent"])
    /\ UNCHANGED pageVars
    /\ UNCHANGED <<variant, savedAdLibraryIds, succeeded>>

\* The session check of the save tried again when it shows no user, where
\* the handler answers "User not authenticated.".
SaveSessionRetries(p) ==
    /\ proc[p].pc = "session"
    /\ \E probe \in SessionProbes :
         LET sessionData == checkSwipeFileSession(probe)
         IN  /\ See(p, [obs[p] EXCEPT !.session =
                          IF ProbeShowsUser(probe) THEN "user" ELSE "none"])
             /\ IF ~Authenticated(sessionData)
                THEN Set(p, proc[p])
                ELSE Set(p, [proc[p] EXCEPT !.pc = "org_tabs",
                                               !.userId = sessionData.user.id])
    /\ UNCHANGED pageVars
    /\ UNCHANGED <<variant, savedAdLibraryIds, succeeded>>

\* save: const sessionData = await checkSwipeFileSession(); the check of it
SaveSession(p) ==
    /\ proc[p].pc = "session"
    /\ \E probe \in SessionProbes :
         LET sessionData == checkSwipeFileSession(probe)
         IN  /\ See(p, [obs[p] EXCEPT !.session =
                          IF ProbeShowsUser(probe) THEN "user" ELSE "none"])
             /\ IF ~Authenticated(sessionData)
                THEN Answer(p, NotAuthenticated)
                ELSE Set(p, [proc[p] EXCEPT !.pc = "org_tabs",
                                               !.userId = sessionData.user.id])
    /\ UNCHANGED pageVars
    /\ UNCHANGED <<variant, savedAdLibraryIds, succeeded>>

\* getOrgIdFromSwipeFileTab: the tab query and the choice of the target tab
SaveOrgTabs(p) ==
    /\ proc[p].pc = "org_tabs"
    /\ \E q \in TabQueries :
         LET seen == IF q.threw THEN "threw"
                     ELSE IF Len(q.tabs) = 0 THEN "none"
                     ELSE IF TargetTab(q.tabs).id = 0 THEN "noid" ELSE "found"
         IN  /\ See(p, [obs[p] EXCEPT !.orgTabs = seen])
             /\ IF seen = "found"
                THEN Set(p, [proc[p] EXCEPT !.pc = "org_script",
                                               !.targetTabId = TargetTab(q.tabs).id])
                ELSE Answer(p, OrgNotFound)
    /\ UNCHANGED pageVars
    /\ UNCHANGED <<variant, savedAdLibraryIds, succeeded>>

\* getOrgIdFromSwipeFileTab: the injected read of localStorage; `!organizationId`
SaveOrgScript(p) ==
    /\ proc[p].pc = "org_script"
    /\ \E s \in OrgScripts :
         LET organizationId == OrgIdOf(s)
         IN  /\ See(p, [obs[p] EXCEPT !.orgScript =
                          IF s.threw THEN "threw"
                          ELSE IF organizationId = "" THEN "empty" ELSE "value"])
             /\ IF organizationId = ""
                THEN Answer(p, OrgNotFound)
                ELSE Set(p, [proc[p] EXCEPT !.pc = "dest_tabs", !.targetTabId = 0,
                                               !.organizationId = organizationId])
    /\ UNCHANGED pageVars
    /\ UNCHANGED <<variant, savedAdLibraryIds, succeeded>>

\* save: the destination tab query (outside the try block: a rejection ends the
\* handler without a response), the choice of the tab, the payload
SaveDestTabs(p) ==
    /\ proc[p].pc = "dest_tabs"
    /\ \E q \in TabQueries :
         LET seen == IF q.threw THEN "threw"
                     ELSE IF Len(q.tabs) = 0 THEN "none"
                     ELSE IF TargetTab(q.tabs).id = 0 THEN "noid" ELSE "found"
         IN  /\ See(p, [obs[p] EXCEPT !.destTabs = seen])
             /\ CASE seen = "threw" ->
                       /\ Set(p, [Respond(p, NoResponse) EXCEPT !.pc = "hung"])
                  [] seen = "none" -> Answer(p, TabNotOpen)
                  [] seen = "noid" -> Answer(p, NoSuitableTab)
                  [] seen = "found" ->
                       /\ Set(p, [proc[p] EXCEPT
                                    !.pc = "post", !.targetTabId = TargetTab(q.tabs).id,
                                    !.payload = Payload(proc[p].userId,
                                                        proc[p].organizationId,
                                                        proc[p].libraryId,
                                                        proc[p].isTiktok)])
    /\ UNCHANGED pageVars
    /\ UNCHANGED <<variant, savedAdLibraryIds, succeeded>>

\* The save injection with `if (result)` for `if (result.success)`: whatever
\* the page function returned, markAdAsSaved runs before the answer.
SavePostMarksAnyResult(p) ==
    /\ proc[p].pc = "post"
    /\ \E s \in PostScripts :
         /\ See(p, [obs[p] EXCEPT !.post = s])
         /\ succeeded' =
              IF /\ ~s.threw /\ s.frames > 0
                 /\ saveAdInPageContext(proc[p].payload, s.http).success
              THEN succeeded \cup {proc[p].libraryId} ELSE succeeded
         /\ IF s.threw THEN Answer(p, ErrorSaving)
            ELSE IF s.frames = 0 THEN Answer(p, ExecuteFailed)
            ELSE Set(p, [proc[p] EXCEPT
                           !.pc = "mark_read",
                           !.result = saveAdInPageContext(proc[p].payload, s.http)])
    /\ UNCHANGED pageVars
    /\ UNCHANGED <<variant, savedAdLibraryIds>>

\* The save injection with sendResponse(result) moved before markAdAsSaved: a
\* successful result is answered at once and the ledger is left alone.
SavePostRespondsFirst(p) ==
    /\ proc[p].pc = "post"
    /\ \E s \in PostScripts :
         /\ See(p, [obs[p] EXCEPT !.post = s])
         /\ succeeded' =
              IF /\ ~s.threw /\ s.frames > 0
                 /\ saveAdInPageContext(proc[p].payload, s.http).success
              THEN succeeded \cup {proc[p].libraryId} ELSE succeeded
         /\ IF s.threw THEN Answer(p, ErrorSaving)
            ELSE IF s.frames = 0 THEN Answer(p, ExecuteFailed)
            ELSE Answer(p, saveAdInPageContext(proc[p].payload, s.http))
    /\ UNCHANGED pageVars
    /\ UNCHANGED <<variant, savedAdLibraryIds>>

\* save: executeScript(saveAdInPageContext) and the inspection of its result
SavePost(p) ==
    /\ proc[p].pc = "post"
    /\ \E s \in PostScripts :
         /\ See(p, [obs[p] EXCEPT !.post = s])
         /\ succeeded' =
              IF /\ ~s.threw /\ s.frames > 0
                 /\ saveAdInPageContext(proc[p].payload, s.http).success
              THEN succeeded \cup {proc[p].libraryId} ELSE succeeded
         /\ IF s.threw THEN Answer(p, ErrorSaving)
            ELSE IF s.frames = 0 THEN Answer(p, ExecuteFailed)
            ELSE LET result == saveAdInPageContext(proc[p].payload, s.http)
                 IN  IF result.success
                     THEN Set(p, [proc[p] EXCEPT !.pc = "mark_read",
                                                 !.result = result])
                     ELSE Answer(p, result)
    /\ UNCHANGED pageVars
    /\ UNCHANGED <<variant, savedAdLibraryIds>>

\* markAdAsSaved: the read of the stored list, the duplicate check, the push
MarkRead(p) ==
    /\ proc[p].pc = "mark_read"
    /\ \E readOk \in BOOLEAN :
         /\ See(p, [obs[p] EXCEPT !.read =
                      IF ~readOk THEN "threw"
                      ELSE IF Includes(savedAdLibraryIds, proc[p].libraryId)
                      THEN "present" ELSE "absent"])
         /\ IF readOk /\ ShouldAppend(savedAdLibraryIds, proc[p].libraryId)
            THEN Set(p, [proc[p] EXCEPT
                              !.pc = "mark_write",
                              !.savedAds = Append(savedAdLibraryIds, proc[p].libraryId)])
            ELSE Answer(p, proc[p].result)
    /\ UNCHANGED pageVars
    /\ UNCHANGED <<variant, savedAdLibraryIds, succeeded>>

\* markAdAsSaved: chrome.storage.local.set; then sendResponse(result)
MarkWrite(p) ==
    /\ proc[p].pc = "mark_write"
    /\ \E writeOk \in BOOLEAN :
         /\ savedAdLibraryIds' =
              IF writeOk THEN StoredBySet(savedAdLibraryIds, proc[p].savedAds)
              ELSE savedAdLibraryIds
         /\ Set(p, Respond(p, proc[p].result))
         /\ obs' = [q \in Procs |->
                      IF q = p
                      THEN [obs[q] EXCEPT !.write = IF writeOk THEN "ok" ELSE "threw"]
                      ELSE IF writeOk /\ proc[q].pc = "mark_write"
                              /\ proc[q].libraryId = proc[p].libraryId
                           THEN [obs[q] EXCEPT !.raced = TRUE]
                           ELSE obs[q]]
    /\ UNCHANGED pageVars
    /\ UNCHANGED <<variant, succeeded>>

Next ==
    \/ \E p \in Procs, request \in Requests : OnMessage(p, request)
    \/ \E p \in Procs : CheckAuth(p)
    \/ \E p \in Procs : CheckAuthOrgTabs(p)
    \/ \E p \in Procs : CheckAuthOrgScript(p)
    \/ \E p \in Procs : CheckAdSaved(p)
    \/ \E p \in Procs : SaveSession(p)
    \/ \E p \in Procs : SaveOrgTabs(p)
    \/ \E p \in Procs : SaveOrgScript(p)
    \/ \E p \in Procs : SaveDestTabs(p)
    \/ \E p \in Procs : SavePost(p)
    \/ \E p \in Procs : MarkRead(p)
    \/ \E p \in Procs : MarkWrite(p)

Spec == Init /\ [][Next]_vars

\* ------------------------------------------------- the save control's steps
\* The alert the callback of the save request shows ("": it shows none).
AlertOf(s, d) ==
    IF d.lastError
    THEN IF s = "facebook"
         THEN "An error occurred while trying to save. Check console." ELSE ""
    ELSE LET response == d.response
         IN  IF response.success
             THEN IF response.message # "" THEN response.message
                  ELSE IF s = "facebook" THEN "Ad successfully saved to Advert Farm!"
                  ELSE "Ad saved successfully!"
             ELSE IF HasFlag(response, "redirectToLogin")
             THEN "You need to be logged into Advert Farm. Redirecting..."
             ELSE IF s = "facebook" /\ HasFlag(response, "redirectToInspiration")
             THEN "Organization ID not found. Please select an organization on the "
                    \o "Advert Farm inspiration page. Redirecting..."
             ELSE "Failed to save ad. Reason: " \o response.message

\* The page the callback opens with window.open ("": it opens none).
OpenedBy(s, d) ==
    IF d.lastError \/ d.response.success THEN ""
    ELSE IF HasFlag(d.response, "redirectToLogin") THEN ADVERT_FARM_LOGIN_URL
    ELSE IF s = "facebook" /\ HasFlag(d.response, "redirectToInspiration")
    THEN ADVERT_FARM_INSPIRATION_URL
    ELSE ""

\* The click listener of the save button.  A click reaches it whenever the
\* button is in the document, whatever its `disabled` attribute says.
ClickListener ==
    /\ inDocument = "saveButton" /\ saveButton.listener
    /\ ui.sent < MaxClicks
    /\ saveButton' = [saveButton EXCEPT !.text = "Saving...", !.disabled = TRUE]
    /\ outstanding' = outstanding + 1
    /\ ui' = [ui EXCEPT !.sent = @ + 1]
    /\ UNCHANGED <<clone, inDocument, resetTimers>>

\* A click on the control of a page whose background script is not followed.
Click ==
    /\ ClickListener
    /\ UNCHANGED <<coordVars, site, scanVars>>

\* The callback given to chrome.runtime.sendMessage with the save request.
Callback(d) ==
    /\ outstanding > 0
    /\ LET ok == ~d.lastError /\ d.response.success
           button == IF d.lastError THEN [saveButton EXCEPT !.text = "Error"]
                     ELSE IF ok
                     THEN [saveButton EXCEPT !.className = SavedClass(site),
                                             !.text = SavedText]
                     ELSE [saveButton EXCEPT !.text = "Save Failed"]
           placed == IF ok THEN replaceWith(inDocument, button)
                     ELSE [inDocument |-> inDocument, clone |-> clone]
       IN  /\ saveButton' = button
           /\ clone' = placed.clone
           /\ inDocument' = placed.inDocument
           /\ outstanding' = outstanding - 1
           /\ resetTimers' = IF ok THEN resetTimers ELSE resetTimers + 1
           /\ ui' = [sent |-> ui.sent, last |-> d, alert |-> AlertOf(site, d),
                     opened |-> OpenedBy(site, d), timerSet |-> ~ok,
                     everSuccess |-> ui.everSuccess \/ ok]

\* The callback runs with one of the answers the background script can give.
SaveCallback ==
    /\ \E d \in Deliveries : Callback(d)
    /\ UNCHANGED <<coordVars, site, scanVars>>

\* The callback of setTimeout(..., 2000) that makes the button clickable again.
ResetTimer ==
    /\ resetTimers > 0
    /\ saveButton' = [saveButton EXCEPT !.text = SaveText, !.disabled = FALSE]
    /\ resetTimers' = resetTimers - 1
    /\ UNCHANGED <<clone, inDocument, outstanding, ui>>
    /\ UNCHANGED <<coordVars, site, scanVars>>

\* A control has just been put on a page of either site, for an ad that
\* checkIfAdSaved reported as saved or as not saved.
ControlInit ==
    /\ variant = "AdvertFarm" /\ CoordinatorLoaded
    /\ site \in Sites
    /\ \E isSaved \in BOOLEAN : saveButton = NewButton(site, isSaved)
    /\ clone = NoElement /\ inDocument = "saveButton"
    /\ outstanding = 0 /\ resetTimers = 0 /\ ui = NoUi
    /\ ScannerAtRest

ControlNext == Click \/ SaveCallback \/ ResetTimer

ControlSpec == ControlInit /\ [][ControlNext]_vars

\* ------------------------- a save control together with the background script
\* The identifier of the ad the page's control belongs to.
AdOf(s) == CHOOSE x \in SiteIds(s) : TRUE

\* chrome.runtime.sendMessage of the click listener: the message it sends
SaveRequest(s) ==
    [action |-> "saveAdViaAdvertFarmTab", libraryId |-> AdOf(s),
     isTiktok |-> s = "tiktok"]

\* A click on the control: the listener runs and its message reaches the
\* background script.
ClickSends(p) ==
    /\ ClickListener
    /\ Receive(p, SaveRequest(site), TRUE)
    /\ UNCHANGED <<site, scanVars>>

\* What the callback of sendMessage is called with: the response the handler
\* sent, or chrome.runtime.lastError when the handler ended without one.
DeliveryOf(p) ==
    IF proc[p].pc = "done" THEN [lastError |-> FALSE, response |-> proc[p].response]
    ELSE [lastError |-> TRUE, response |-> NoResponse]

\* The callback of the control runs with the outcome of its request, which
\* is over with that.
Answered(p) ==
    /\ obs[p].callback /\ Settled(p)
    /\ Callback(DeliveryOf(p))
    /\ Set(p, Idle) /\ See(p, NoObs)
    /\ UNCHANGED <<variant, savedAdLibraryIds, succeeded, site, scanVars>>

\* A control has just been put on a page of either site for an ad that is
\* not in the list, the background script having just been loaded.
SaveInit ==
    /\ variant = "AdvertFarm" /\ CoordinatorLoaded
    /\ site \in Sites
    /\ saveButton = NewButton(site, FALSE)
    /\ clone = NoElement /\ inDocument = "saveButton"
    /\ outstanding = 0 /\ resetTimers = 0 /\ ui = NoUi
    /\ ScannerAtRest

SaveNext ==
    \/ \E p \in Procs : ClickSends(p)
    \/ \E p \in Procs : Answered(p)
    \/ \E p \in Procs : SaveSession(p)
    \/ \E p \in Procs : SaveOrgTabs(p)
    \/ \E p \in Procs : SaveOrgScript(p)
    \/ \E p \in Procs : SaveDestTabs(p)
    \/ \E p \in Procs : SavePost(p)
    \/ \E p \in Procs : MarkRead(p)
    \/ \E p \in Procs : MarkWrite(p)
    \/ ResetTimer

SaveSpec == SaveInit /\ [][SaveNext]_vars

\* ------------------------------------------------------ the scanner's steps
\* The observer's callback, given added nodes, calls the debounced scan:
\* clearTimeout(timeout); timeout = setTimeout(later, wait).
CallDebounced(inserts) ==
    LET cleared == clearTimeout(timers, timeout)
        id      == NewTimerId(cleared)
    IN  /\ timers' = cleared \cup {[id |-> id, kind |-> "debounce", left |-> DebounceWait]}
        /\ timeout' = id
        /\ elapsed' = 0
        /\ scans' = [scans EXCEPT
                       !.called = TRUE, !.sinceCall = 0, !.inserts = inserts,
                       !.burst = IF scans.called /\ elapsed < DebounceWait
                                 THEN (IF scans.burst < 2 THEN scans.burst + 1 ELSE 2)
                                 ELSE 0]

\* The site adds nodes to the page: a card appears, the content of a card
\* that lacked its identifier or its anchor arrives, or something else is
\* added.  The observer sees the addition.
SiteInserts ==
    /\ scans.setups > 0
    /\ scans.inserts < MaxInserts
    /\ \/ \E c \in Cards, card \in NewCards(site) :
            /\ c = NextCard(cards)
            /\ cards' = [cards EXCEPT ![c] = card]
       \/ \E c \in Cards, x \in SiteIds(site) :
            /\ cards[c].inPage /\ cards[c].id = ""
            /\ cards' = [cards EXCEPT ![c].id = x]
       \/ \E c \in Cards :
            /\ cards[c].inPage /\ ~cards[c].anchor
            /\ cards' = [cards EXCEPT ![c].anchor = TRUE]
       \/ UNCHANGED cards
    /\ CallDebounced(scans.inserts + 1)
    /\ UNCHANGED <<coordVars, site, controlVars, marker>>

\* Time passes, up to the moment the next timer is due.
Tick ==
    /\ timers # {} \/ (scans.called /\ elapsed < LongAfter)
    /\ \A t \in timers : t.left > 0
    /\ timers' = { [t EXCEPT !.left = @ - Quantum] : t \in timers }
    /\ elapsed' = IF elapsed < LongAfter THEN elapsed + Quantum ELSE elapsed
    /\ UNCHANGED <<cards, timeout, scans>>
    /\ UNCHANGED <<coordVars, site, controlVars, marker>>

\* debounce's `later`, run by the timer: clearTimeout(timeout); func()
DebounceFires(t) ==
    /\ t \in timers /\ t.kind = "debounce" /\ t.left = 0
    /\ timers' = clearTimeout(timers \ {t}, timeout)
    /\ cards' = findAndProcessAds(cards)
    /\ scans' = [scans EXCEPT !.sinceCall = @ + 1]
    /\ UNCHANGED <<timeout, elapsed>>
    /\ UNCHANGED <<coordVars, site, controlVars, marker>>

\* One of the scans initialSetup has set timers for.
InitialScanFires(t) ==
    /\ t \in timers /\ t.kind = "initial" /\ t.left = 0
    /\ timers' = timers \ {t}
    /\ cards' = findAndProcessAds(cards)
    /\ UNCHANGED <<timeout, elapsed, scans>>
    /\ UNCHANGED <<coordVars, site, controlVars, marker>>

\* add...SaveButtonToAd after its await: the anchor has left the document in
\* the meantime, or the wrapper and the button (saved or not, as checkIfAdSaved
\* answered) are inserted, an addition the observer sees.
InjectControl(c) ==
    /\ cards[c].awaiting > 0
    /\ LET resumed == [cards[c] EXCEPT !.awaiting = @ - 1,
                                       !.rescanned = @ /\ cards[c].awaiting > 1]
       IN  \/ /\ cards' = [cards EXCEPT ![c] =
                             [resumed EXCEPT !.anchor = FALSE,
                                             !.control = IF resumed.controls > 0 THEN @
                                                         ELSE IF resumed.awaiting > 0
                                                         THEN "pending" ELSE "none"]]
              /\ UNCHANGED <<timers, timeout, elapsed, scans>>
           \/ \E isSaved \in BOOLEAN :
                /\ cards' = [cards EXCEPT ![c] =
                               [resumed EXCEPT !.control = IF isSaved THEN "saved" ELSE "save",
                                               !.controls = IF @ < 2 THEN @ + 1 ELSE @]]
                /\ CallDebounced(scans.inserts)
    /\ UNCHANGED <<coordVars, site, controlVars, marker>>

\* initialSetup: the timers in ts and the three it sets, which get the next
\* handles in the order it sets them.
initialSetup(ts) ==
    ts \cup { [id |-> NewTimerId(ts) - 1 + Cardinality({ e \in InitialScanDelays : e <= d }),
               kind |-> "initial", left |-> d] : d \in InitialScanDelays }

\* A guard that finds no marker, whatever the document holds.
SetupNeededAlways(mk) == TRUE

\* `!document.getElementById('meta-ad-saver-extension-initialized-marker')`
SetupNeeded(mk) == ~mk

\* The content script is run in the document, for the first time or once
\* more: its last statement puts the marker into the document and runs initialSetup when it finds no
\* marker there.
ContentScript ==
    /\ scans.injections < MaxInjections
    /\ IF SetupNeeded(marker)
       THEN /\ marker' = TRUE
            /\ timers' = initialSetup(timers)
            /\ scans' = [scans EXCEPT !.injections = @ + 1,
                                      !.setups = IF @ < 2 THEN @ + 1 ELSE @]
       ELSE /\ scans' = [scans EXCEPT !.injections = @ + 1]
            /\ UNCHANGED <<marker, timers>>
    /\ UNCHANGED <<cards, timeout, elapsed>>
    /\ UNCHANGED <<coordVars, site, controlVars>>

\* A page of either site that shows some cards, as the content script is
\* about to be run in it for the first time.
ScanInit ==
    /\ variant = "AdvertFarm" /\ CoordinatorLoaded
    /\ site \in Sites
    /\ ControlAtRest
    /\ cards \in [Cards -> NewCards(site) \cup {NoCard}]
    /\ \A c \in Cards : cards[c].inPage <=> c < NextCard(cards)
    /\ timers = {}
    /\ timeout = 0 /\ elapsed = 0
    /\ scans = NoScans
    /\ marker = FALSE

ScanNext ==
    \/ ContentScript
    \/ SiteInserts
    \/ Tick
    \/ \E t \in timers : DebounceFires(t)
    \/ \E t \in timers : InitialScanFires(t)
    \/ \E c \in Cards : InjectControl(c)

ScanSpec == ScanInit /\ [][ScanNext]_vars

\* The scanner under the browser's scheduling: time passes, a timer that is due
\* runs its callback, and the background script answers checkIfAdSaved (or the
\* message fails), which resumes add...SaveButtonToAd.  Nothing obliges the
\* site to add nodes or the content script to be run again.
FairScanSpec ==
    /\ ScanSpec
    /\ WF_vars(Tick)
    /\ WF_vars(\E t \in timers : DebounceFires(t))
    /\ WF_vars(\E t \in timers : InitialScanFires(t))
    /\ WF_vars(\E c \in Cards : InjectControl(c))

\* ----------------------------------------------------------------- claims
Done(p, action) == proc[p].pc = "done" /\ proc[p].action = action
Count(list, x) == Cardinality({ i \in DOMAIN list : list[i] = x })

\* C1: once a save of x has been answered success=true, every checkAdSaved(x)
\* issued afterwards is answered isSaved=true.
C1_CheckAfterSuccessIsTrue ==
    \A p \in Procs :
        (Done(p, "checkAdSaved") /\ obs[p].afterSuccess) => proc[p].response.isSaved

\* C2: the persisted ledger contains every identifier at most once, whatever
\* saves (repeated saves of one identifier included) have run.
C2_NoDuplicates ==
    \A x \in Ids : Count(savedAdLibraryIds, x) <= 1

\* A save of an identifier that was in the ledger already has been answered
\* success=true.
C2_RepeatedSave ==
    \E p \in Procs : /\ Done(p, SaveAction) /\ proc[p].response.success
                     /\ obs[p].read = "present"
                     /\ Includes(savedAdLibraryIds, proc[p].libraryId)

\* The later of the ledger writes of two saves of one identifier that both read
\* the ledger before either wrote it.
SecondRacingWrite(p) ==
    /\ proc[p].pc = "mark_write" /\ obs[p].read = "absent" /\ obs[p].raced
    /\ proc'[p].pc = "done" /\ obs'[p].write = "ok"

\* C3 as stated: two saves of one identifier whose ledger reads both precede
\* either ledger write leave the ledger with the identifier twice.
C3_RaceLeavesTwo ==
    [][\A p \in Procs :
         SecondRacingWrite(p) => Count(savedAdLibraryIds', proc[p].libraryId) = 2]_vars

\* C3 as amended: two saves of one identifier whose ledger reads both precede
\* either ledger write both read it as absent and both write, and the second
\* write leaves the ledger with the identifier once.
C3_RaceLeavesOne ==
    [][\A p \in Procs :
         SecondRacingWrite(p) => Count(savedAdLibraryIds', proc[p].libraryId) = 1]_vars

\* Both of two racing saves of one identifier have written the ledger.
C3_BothWrote ==
    \E p, q \in Procs :
        /\ p # q /\ Done(p, SaveAction) /\ Done(q, SaveAction)
        /\ proc[p].libraryId = proc[q].libraryId
        /\ obs[p].read = "absent" /\ obs[q].read = "absent"
        /\ obs[p].write = "ok" /\ obs[q].write = "ok" /\ obs[q].raced

\* Every tab query the request made found no service tab.
NoOpenTab(p) == obs[p].orgTabs = "none" /\ obs[p].destTabs \in {"", "none"}

\* C4: with an active session and no open service tab, a save is answered
\* success=false with the tab-not-open message, and the POST is not attempted.
C4_NoTabAnswer ==
    \A p \in Procs :
        (Done(p, SaveAction) /\ obs[p].session = "user" /\ NoOpenTab(p))
            => proc[p].response = TabNotOpen /\ obs[p].post = NoPost

\* C5: a save made while the probe shows no session is answered success=false
\* with redirectToLogin, without organization lookup, POST or ledger access.
C5_NoSession ==
    \A p \in Procs :
        (proc[p].action = SaveAction /\ obs[p].session = "none")
            => /\ proc[p].pc = "done"
               /\ obs[p].orgTabs = "" /\ obs[p].orgScript = "" /\ obs[p].destTabs = ""
               /\ obs[p].post = NoPost /\ obs[p].read = "" /\ obs[p].write = ""
               /\ ~proc[p].response.success
               /\ HasFlag(proc[p].response, "redirectToLogin")

\* A save has been answered after a probe that showed no session.
C5_Answered ==
    \E p \in Procs : /\ Done(p, SaveAction) /\ obs[p].session = "none"
                     /\ proc[p].response = NotAuthenticated

\* Which of the four failure causes a failed save met.
Cause(p) ==
    IF obs[p].session = "none" THEN "no session"
    ELSE IF obs[p].orgTabs = "none" \/ obs[p].destTabs = "none" THEN "no tab"
    ELSE IF obs[p].orgScript = "empty" THEN "no organization id"
    ELSE IF /\ obs[p].post # NoPost /\ ~obs[p].post.threw /\ obs[p].post.frames > 0
            /\ (obs[p].post.http.fetchThrew \/ ~ResponseOk(obs[p].post.http))
    THEN "http failure"
    ELSE "other"

\* C6: failed saves of different causes (no session, no organization id, no
\* open tab, HTTP failure) are answered with different responses.
C6_DistinctFailures ==
    \A p, q \in Procs :
        ( /\ Done(p, SaveAction) /\ Done(q, SaveAction)
          /\ ~proc[p].response.success /\ ~proc[q].response.success
          /\ Cause(p) # "other" /\ Cause(q) # "other" /\ Cause(p) # Cause(q) )
            => proc[p].response # proc[q].response

C8_PostBodyAndLedger ==
    \A p \in Procs :
        (proc[p].action = SaveAction /\ proc[p].libraryId \in LibraryIds)
            => /\ proc[p].pc = "post"
                    => proc[p].payload =
                         [userId |-> proc[p].userId,
                          organizationId |-> proc[p].organizationId,
                          libraryId |-> proc[p].libraryId, library |-> "meta"]
               /\ ( /\ proc[p].pc = "done" /\ obs[p].post # NoPost
                    /\ ~obs[p].post.threw /\ obs[p].post.frames > 0
                    /\ ~obs[p].post.http.fetchThrew /\ obs[p].post.http.status = 200 )
                    => Includes(savedAdLibraryIds, proc[p].libraryId)

\* C9: an identifier in the ledger stays in the ledger.
C9_NeverRemoved ==
    [][\A x \in Ids :
         Includes(savedAdLibraryIds, x) => Includes(savedAdLibraryIds', x)]_vars

\* C10: checkAdSaved(x) is answered true exactly when the ledger read succeeds
\* and x is in the ledger at that moment, and never for an identifier no save
\* POST has succeeded for.
C10_CheckReflectsLedger ==
    [][ /\ \A p \in Procs :
             (proc[p].pc = "check_read" /\ proc'[p].pc = "done")
                => (proc'[p].response.isSaved
                      <=> /\ obs'[p].read # "threw"
                          /\ Includes(savedAdLibraryIds, proc[p].libraryId))
        /\ \A p \in Procs :
             (proc[p].pc = "check_read" /\ proc'[p].pc = "done"
                /\ proc'[p].response.isSaved) => proc[p].libraryId \in succeeded
      ]_vars

\* One checkAdSaved was answered true, another false because its read failed
\* while the identifier was in the ledger.
C10_BothAnswers ==
    \E p, q \in Procs :
        /\ Done(p, "checkAdSaved") /\ proc[p].response.isSaved
        /\ Done(q, "checkAdSaved") /\ ~proc[q].response.isSaved
        /\ obs[q].read = "threw" /\ Includes(savedAdLibraryIds, proc[q].libraryId)

\* C11: checkAuth answers with a session value and an organization id value
\* (each possibly null), and makes the organization id lookup only when the
\* session check found an authenticated user.
C11_CheckAuthAnswersBoth ==
    \A p \in Procs :
        Done(p, "checkAuth")
            => /\ "sessionData" \in DOMAIN proc[p].response
               /\ "organizationId" \in DOMAIN proc[p].response
               /\ (obs[p].orgTabs # "" => ProbeShowsUser(obs[p].probe))

\* The request names the content scripts send.
PageScannerActions == {"checkAuth", "checkAdSaved", "saveAdViaAdvertFarmTab"}

\* C12: every request the Page Scanner sends is handled by the Save Coordinator
\* and is answered on every execution path: a request the listener has taken is
\* being worked on or has its response, also when a tab query, a script
\* injection or a storage call threw.
C12_EveryRequestAnswered ==
    \A p \in Procs :
        proc[p].action \in PageScannerActions
            => /\ proc[p].pc \notin {"unhandled", "hung"}
               /\ (proc[p].pc = "done" => proc[p].response # NoResponse)

\* The step of the save that the request's environment made fail, if any.
SessionFailed(p) == obs[p].session = "none"
OrgFailed(p)     == obs[p].orgTabs \in {"threw", "none", "noid"}
                        \/ obs[p].orgScript \in {"threw", "empty"}
DestFailed(p)    == obs[p].destTabs \in {"threw", "none", "noid"}
PostFailed(p)    == /\ obs[p].post # NoPost
                    /\ \/ obs[p].post.threw \/ obs[p].post.frames = 0
                       \/ obs[p].post.http.fetchThrew \/ ~ResponseOk(obs[p].post.http)

\* Every step the request has made came after the success of the step before it.
StepsInOrder(p) ==
    /\ obs[p].orgTabs # "" => obs[p].session = "user"
    /\ obs[p].orgScript # "" => obs[p].orgTabs = "found"
    /\ obs[p].destTabs # "" => obs[p].orgScript = "value"
    /\ obs[p].post # NoPost => obs[p].destTabs = "found"
    /\ obs[p].read # "" => obs[p].post # NoPost /\ ~PostFailed(p)
    /\ obs[p].write # "" => obs[p].read = "absent"

\* C18: a save makes its steps in the order session check, organization id
\* lookup, destination tab lookup, POST, ledger append, response; the first
\* step that fails ends the request, which is not answered success; and a
\* success response is sent only after markAdAsSaved has run to its end, the
\* identifier being in the ledger at that moment when its write went through.
C18_FixedOrder ==
    [][\A p \in Procs :
         proc'[p].action = SaveAction
            => /\ StepsInOrder(p)'
               /\ (SessionFailed(p)' \/ OrgFailed(p)' \/ DestFailed(p)' \/ PostFailed(p)')
                     => /\ Settled(p)'
                        /\ (proc'[p].pc = "done" => ~proc'[p].response.success)
               /\ (proc[p].pc # "done" /\ proc'[p].pc = "done" /\ proc'[p].response.success)
                     => /\ obs'[p].read # ""
                        /\ obs'[p].read = "absent" => obs'[p].write # ""
                        /\ obs'[p].write = "ok"
                              => Includes(savedAdLibraryIds', proc'[p].libraryId)]_vars

\* A save has been answered success=true after all six steps, its ledger write
\* included.
C18_AllSteps ==
    \E p \in Procs : /\ Done(p, SaveAction) /\ proc[p].response.success
                     /\ obs[p].session = "user" /\ obs[p].orgScript = "value"
                     /\ obs[p].destTabs = "found" /\ obs[p].write = "ok"

\* The save POST of request p got an HTTP response with a non-2xx status.
NonOkStatus(p) ==
    /\ obs[p].post # NoPost /\ ~obs[p].post.threw /\ obs[p].post.frames > 0
    /\ ~obs[p].post.http.fetchThrew /\ ~ResponseOk(obs[p].post.http)

\* C20: when the save POST returns a non-2xx status, the failure message given
\* to the caller is the message field of the response body when the body has
\* one, and otherwise the generic message built from the HTTP status, also
\* when the body is not parseable JSON.
C20_NonOkMessage ==
    \A p \in Procs :
        (Done(p, SaveAction) /\ NonOkStatus(p))
            => LET http == obs[p].post.http
               IN  /\ ~proc[p].response.success
                   /\ proc[p].response.message =
                         IF http.body.type = "object" /\ http.body.message # ""
                         THEN http.body.message ELSE ApiError(http.status)

\* The element of the control that is in the document.
Displayed == IF inDocument = "clone" THEN clone ELSE saveButton
InSavedState == Displayed.className = SavedClass(site) /\ Displayed.text = SavedText

\* C13: once the control has received a success response it is in the saved
\* state and stays there, whatever click, late response of another request or
\* reset timer follows, and it sends no further save request.
C13_SavedForGood ==
    [][ui'.everSuccess => /\ InSavedState'
                          /\ (ui.everSuccess => ui'.sent = ui.sent)]_vars

\* After a success response, the failure response of another request has come
\* and the reset timer it set has run.
C13_LateFailureAndTimer ==
    /\ ui.everSuccess /\ ~ui.last.lastError /\ ~ui.last.response.success
    /\ ui.timerSet /\ resetTimers = 0 /\ outstanding = 0

\* C15: a control has at most one save request outstanding at any time, a
\* click made while one is in flight sending none.
C15_OneOutstanding == outstanding <= 1

\* The callback's last call was a failure: a transport error or success=false.
LastFailed == ui.last.lastError
                \/ (ui.last # NoDelivery /\ ~ui.last.response.success)

\* C14: after every failure response to a save request, on either site, the
\* control has shown an alert and has set the timer that makes it clickable
\* again after the fixed delay.
C14_FailureAlertsAndResets ==
    LastFailed => ui.alert # "" /\ ui.timerSet

\* C19: a save request that failed for lack of an organization id makes the
\* control, on either site, open the organization-selection page.
C19_OrgMissingRedirects ==
    (~ui.last.lastError /\ HasFlag(ui.last.response, "redirectToInspiration"))
        => ui.opened = ADVERT_FARM_INSPIRATION_URL

DebounceTimers(ts) == { t \in ts : t.kind = "debounce" }

\* C16: calls of the debounced scan that each come less than the debounce wait
\* after the one before produce one scan: no scan runs between them, the scan
\* runs when one wait has passed since the last call, it is the only one, and
\* it has run once more time than that has passed; and never is more than one
\* debounce timer pending.
C16_OneScanPerBurst ==
    [][/\ Cardinality(DebounceTimers(timers')) <= 1
       /\ scans'.sinceCall > scans.sinceCall => elapsed = DebounceWait
       /\ scans'.sinceCall <= 1
       /\ (scans'.called /\ elapsed' > DebounceWait) => scans'.sinceCall = 1]_vars

\* A burst of three calls, each less than the wait after the one before, has
\* been followed by its scan.
C16_BurstScanned == scans.burst = 2 /\ scans.sinceCall = 1

\* A scan runs in this step.
ScanStep == \E t \in timers : DebounceFires(t) \/ InitialScanFires(t)

\* C17 as stated: every card a scan has found unprocessed is marked processed,
\* whether or not an identifier was extracted from it.
C17_EveryVisitedCardMarked ==
    \A c \in Cards : cards[c].examined > 0 => cards[c].processed

\* C17 as amended: a scan marks a not-yet-processed card it visits as processed
\* exactly when an identifier was extracted from it; a card without an
\* identifier stays unmarked, to be examined again by later scans.
C17_MarkedIffIdentifier ==
    [][ScanStep =>
         \A c \in Cards :
            (cards[c].inPage /\ ~cards[c].processed)
               => /\ cards'[c].processed <=> cards[c].id # ""
                  /\ cards'[c].examined >= 1]_vars

\* A card has been examined by two scans, the first of which left it unmarked
\* for want of an identifier, and the second has not marked it either.
C17_ExaminedAgain ==
    \E c \in Cards : /\ cards[c].id = "" /\ cards[c].examined = 2
                     /\ ~cards[c].processed /\ timers = {}

\* C21: the save of a TikTok creative link posts a body whose creativeLink is
\* the link and whose library is "tiktok", with no libraryId field, and what
\* the save appends to the ledger after a successful POST is the link.
C21_TiktokBody ==
    \A p \in Procs :
        (proc[p].action = SaveAction /\ proc[p].libraryId \in CreativeLinks)
            => /\ proc[p].pc = "post"
                    => /\ "creativeLink" \in DOMAIN proc[p].payload
                       /\ "libraryId" \notin DOMAIN proc[p].payload
                       /\ proc[p].payload.creativeLink = proc[p].libraryId
                       /\ proc[p].payload.library = "tiktok"
               /\ proc[p].pc = "mark_write"
                    => proc[p].savedAds[Len(proc[p].savedAds)] = proc[p].libraryId

\* The save of request p went through: its POST succeeded and its ledger read
\* and write, where made, did not fail.
SavedAndStored(p) ==
    /\ Done(p, SaveAction) /\ proc[p].response.success
    /\ obs[p].read # "threw" /\ obs[p].write # "threw"

\* C26: when two saves of different identifiers x and y have both been
\* answered success=true (no ledger access of either having failed), the
\* ledger contains both x and y, however their ledger reads and writes
\* interleaved.
C26_BothInLedger ==
    \A p, q \in Procs :
        (/\ p # q /\ SavedAndStored(p) /\ SavedAndStored(q)
         /\ proc[p].libraryId # proc[q].libraryId)
            => /\ Includes(savedAdLibraryIds, proc[p].libraryId)
               /\ Includes(savedAdLibraryIds, proc[q].libraryId)

\* The POST of request p returned success.
PostSucceeded(p) == obs[p].post # NoPost /\ ~PostFailed(p)

\* C27: the ledger changes only in the ledger write of a save whose POST
\* returned success; a request that is answered as a checkAuth, as a
\* checkAdSaved or as a failed save has written nothing to the ledger, and the
\* step that answers it leaves the ledger as it was.
C27_LedgerFrame ==
    [][/\ savedAdLibraryIds' # savedAdLibraryIds
            => \E p \in Procs : /\ proc[p].pc = "mark_write" /\ proc'[p].pc = "done"
                                /\ proc[p].action = SaveAction
                                /\ PostSucceeded(p) /\ obs'[p].write = "ok"
       /\ \A p \in Procs :
            (/\ proc[p].pc # "done" /\ proc'[p].pc = "done"
             /\ \/ proc'[p].action \in {"checkAuth", "checkAdSaved"}
                \/ ~proc'[p].response.success)
                => /\ obs'[p].write = ""
                   /\ savedAdLibraryIds' = savedAdLibraryIds]_vars

\* A failed save, a checkAuth and a checkAdSaved have been answered while the
\* ledger held an identifier that an earlier save had written.
C27_AnsweredBesideLedger ==
    /\ savedAdLibraryIds # <<>>
    /\ \E p, q \in Procs :
         /\ Done(p, SaveAction) /\ ~proc[p].response.success /\ PostFailed(p)
         /\ Done(q, "checkAdSaved")

\* C29: the save POST is made only by a request whose own session check showed
\* a user, whose own organization lookup found a tab and read a non-empty
\* value from it, and whose destination tab query found a tab with an id; the
\* body posted carries that user and the organization id that was read.
C29_PostOnlyWhenReady ==
    \A p \in Procs :
        (proc[p].action = SaveAction /\ (proc[p].pc = "post" \/ obs[p].post # NoPost))
            => /\ obs[p].session = "user"
               /\ obs[p].orgTabs = "found" /\ obs[p].orgScript = "value"
               /\ obs[p].destTabs = "found"
               /\ proc[p].pc = "post"
                    => /\ proc[p].targetTabId # 0
                       /\ proc[p].payload.userId # ""
                       /\ proc[p].payload.organizationId \in Orgs
                       /\ proc[p].payload.organizationId = proc[p].organizationId

\* A save is about to make its POST.
C29_AboutToPost ==
    \E p \in Procs : /\ proc[p].action = SaveAction /\ proc[p].pc = "post"
                     /\ proc[p].payload.organizationId \in Orgs

\* C23: over the scans of one page load, the initial ones and the debounced
\* ones, a card has at most one call of add...SaveButtonToAd awaiting its
\* saved-status check and gets at most one save control, also when scans run
\* during that await.
C23_OneControlPerCard ==
    \A c \in Cards :
        /\ cards[c].awaiting <= 1
        /\ cards[c].controls <= 1
        /\ cards[c].awaiting + cards[c].controls <= 1

\* A scan has passed over a card whose saved-status check is awaited.
C23_ScannedWhileAwaiting ==
    \E c \in Cards : /\ cards[c].awaiting = 1 /\ cards[c].rescanned
                     /\ cards[c].controls = 0

\* C25: however often the content script is run in a document, initialSetup
\* runs there once: the three scan timers are set once and the observer is
\* started once.
C25_SetupOnce ==
    /\ scans.setups <= 1
    /\ scans.injections > 0 => scans.setups = 1 /\ marker
    /\ \A t, u \in timers : (t.kind = "initial" /\ u.kind = "initial" /\ t.left = u.left)
                               => t = u

\* The content script has been run a second time before the first of the
\* three scans was due.
C25_RunTwice ==
    /\ scans.injections = 2
    /\ Cardinality({ t \in timers : t.kind = "initial" }) = 3

\* No timer of the scanner is pending and no saved-status check is awaited.
Quiescent == timers = {} /\ \A c \in Cards : cards[c].awaiting = 0

\* C24: a card in the document that yields an identifier is not left marked
\* processed without a control (one being on its way while the saved-status
\* check is awaited), and has its control once the scans set off by the setup
\* and by the insertions so far have run and the checks have been answered.
C24_NoCardLeftOut ==
    \A c \in Cards :
        (cards[c].inPage /\ cards[c].id # "")
            => /\ cards[c].processed => (cards[c].awaiting > 0 \/ cards[c].controls > 0)
               /\ (scans.setups > 0 /\ Quiescent) => cards[c].controls > 0

\* C30: the timers run out: from some moment on no timer is pending and no
\* saved-status check is awaited, the scans that the injections of controls
\* set off included.
C30_ReachesQuiescence == <>[]Quiescent

\* The scanner is at rest after the debounced scan that the injection of a
\* control set off.
C30_AtRestAfterInjection ==
    /\ Quiescent
    /\ scans.sinceCall = 1
    /\ \E c \in Cards : cards[c].controls = 1

\* How far the handler of a save has got.
StepOf(pc) ==
    CASE pc = "session" -> 1 [] pc = "org_tabs" -> 2 [] pc = "org_script" -> 3
      [] pc = "dest_tabs" -> 4 [] pc = "post" -> 5 [] pc = "mark_read" -> 6
      [] pc = "mark_write" -> 7 [] OTHER -> 8

\* What the save of request p has asked of its environment so far.
Asked(p) ==
    <<obs[p].session, obs[p].orgTabs, obs[p].orgScript, obs[p].destTabs, obs[p].post>>

\* The requests whose answer the control's callback waits for.
Waiting == { p \in Procs : obs[p].callback }

\* C22: nothing is tried again.  A step in which the control sends a save
\* request is a click, and a click sends one request; the callback and the
\* reset timer send none.  Every step of a save's handler takes it forward, so
\* that one request makes the session probe, the organization lookup and the
\* POST at most once each, and a handler that has answered does nothing more.
C22_NothingRetried ==
    [][/\ Cardinality(Waiting' \ Waiting) = ui'.sent - ui.sent
       /\ Cardinality(Waiting') = outstanding'
       /\ \A p \in Procs :
            /\ (~Settled(p) /\ (proc'[p] # proc[p] \/ Asked(p)' # Asked(p)))
                  => StepOf(proc'[p].pc) > StepOf(proc[p].pc)
            /\ (Settled(p) /\ proc[p].pc # "idle" /\ proc'[p] # proc[p])
                  => proc'[p].pc \in {"idle", "session"}]_vars

\* The control has shown the failure of its one save request and has been
\* made clickable again, and no request is under way.
C22_FailedAndQuiet ==
    /\ ui.sent = 1 /\ outstanding = 0 /\ resetTimers = 0
    /\ ~ui.last.lastError /\ ui.last.response # NoResponse /\ ~ui.last.response.success
    /\ saveButton.text = SaveText
    /\ \A p \in Procs : proc[p].pc = "idle"

\* C28: whenever the page's save control is in the saved state, the
\* identifier of its ad is in the persisted ledger.
C28_SavedMeansInLedger ==
    InSavedState => Includes(savedAdLibraryIds, AdOf(site))
====
